---- MODULE Spec2Model ----
(***************************************************************************)
(* Terminal image encoders of endcord_cython/media.pyx:                    *)
(*   img_to_term        glyph-density (ASCII ramp) encoder, lines 3-65     *)
(*   img_to_term_block  half-block encoder, lines 68-133                   *)
(*                                                                         *)
(* Text is a sequence of one-character strings; the control character      *)
(* \x1b is the single element ESC.  A call is a small state machine: one   *)
(* step per loop iteration of the source.  Every variable is a function    *)
(* of the call id, so that several calls can be in progress.               *)
(*                                                                         *)
(* The module is compiled with boundscheck=False, wraparound=False         *)
(* (line 1): the ramp read of line 50 is not range-checked.  A read past   *)
(* the list is undefined behaviour and is modelled as a choice between a   *)
(* fault of the process and an arbitrary object being fetched.             *)
(***************************************************************************)
EXTENDS Integers, Sequences, FiniteSets, TLC

\* ---------------------------------------------------------------- bounds
MaxScreenW == 4
MaxScreenH == 3
MaxImgW == 4
MaxImgH == 4
MaxCells == 4
MaxRamp == 2
\* by how many cells (rows of output) an image may exceed the viewport
MaxOverflow == 1
\* the runs of a call with the same arguments, and the cells of such a call
MaxRuns == 2
MaxAgainCells == 2
\* the viewport and the image cells of calls that run concurrently
MaxPairScreen == 2
MaxPairCells == 2
MaxPairTermCells == 1
\* the viewport and the image cells of calls on unvalidated pixel values
MaxWideScreen == 2
MaxWideCells == 2

\* ------------------------------------------------------- input domains
\* palette indices of the pixel buffer (spec: [0,239]) and luminances
\* ([0,255]) the inputs are drawn from
PixelValues == {0, 239}
\* integers a pixel buffer may hold when nothing validates it
WidePixelValues == {-17, 0, 240}
LumValues == {0, 255}
\* luminances with one between the ends
MidLumValues == {0, 128, 255}
BgValues == {0, 255}
Fns == {"img_to_term", "img_to_term_block"}

\* ------------------------------------------------------------------ text
ESC == "ESC"
NL == "\n"
\* (mutant) the lower half block
HALF_BLOCK_lower == "▄"
HALF_BLOCK == "▀"
DigitChars == <<"0", "1", "2", "3", "4", "5", "6", "7", "8", "9">>

RECURSIVE Digits(_)
Digits(n) ==
    IF n < 10 THEN <<DigitChars[n + 1]>>
    ELSE Digits(n \div 10) \o <<DigitChars[(n % 10) + 1]>>

\* str(int): decimal digits, a leading "-" for a negative number
str(n) == IF n < 0 THEN <<"-">> \o Digits(-n) ELSE Digits(n)

\* " " * n: n spaces, the empty string when n <= 0
Spaces(n) == IF n <= 0 THEN <<>> ELSE [i \in 1..n |-> " "]

RESET == <<ESC, "[", "0", "m">>
FG_PREFIX == <<"[", "3", "8", ";", "5", ";">>
BG_PREFIX == <<"[", "4", "8", ";", "5", ";">>

\* bg = ESC + "[48;5;" + str(bg_color) + "m"
\* (mutant) the background escape with the palette offset of the pixels
BgEscape_offset(code) == <<ESC>> \o BG_PREFIX \o str(code + 16) \o <<"m">>
BgEscape(code) == <<ESC>> \o BG_PREFIX \o str(code) \o <<"m">>

\* an object that is not a str ("".join raises TypeError on it)
NonStr == <<"<object>">>

RECURSIVE Concat(_)
\* "".join(parts)
Concat(parts) ==
    IF parts = <<>> THEN <<>> ELSE Head(parts) \o Concat(Tail(parts))

RECURSIVE JoinLines(_)
\* "\n".join(lines)
JoinLines(lines) ==
    IF lines = <<>> THEN <<>>
    ELSE IF Len(lines) = 1 THEN lines[1]
    ELSE lines[1] \o <<NL>> \o JoinLines(Tail(lines))

\* --------------------------------------------------------------- ramp
GlyphChars == <<".", ":", "+", "#", "@", "%">>
\* the glyph ramp of n one-cell glyphs
Ramp(n) == [i \in 1..n |-> <<GlyphChars[i]>>]

\* objects an unchecked read past the end of the list may fetch: some str
\* (printable, of any width; here two cells wide) or an object of another type
GarbageStr == <<"?", "?">>
Garbage == {GarbageStr, NonStr}

\* (mutant) the ramp read from its dark end
RampIndex_inverted(gray_val, palette_len) ==
    ((255 - gray_val) * (palette_len - 1)) \div 255
\* (mutant) the ramp index rounded to the nearest instead of down
RampIndex_rounded(gray_val, palette_len) == (gray_val * palette_len + 127) \div 255
\* (gray_val * ascii_palette_len) // 255
RampIndex(gray_val, palette_len) == (gray_val * palette_len) \div 255

OutOfBounds(list, i) == ~(0 <= i /\ i < Len(list))

\* list[i] with boundscheck=False, wraparound=False
GetItem(list, i) == IF OutOfBounds(list, i) THEN Garbage ELSE {list[i + 1]}

\* ------------------------------------------------------------ geometry
\* (mutant) the vertical padding a third of the free rows
PaddingH_third(screen_h, img_h) == (screen_h - img_h) \div 3
\* (mutant) the vertical padding rounded up
PaddingH_ceil(screen_h, img_h) == (screen_h - img_h + 1) \div 2
PaddingH(screen_h, img_h) == (screen_h - img_h) \div 2
\* (mutant) the horizontal padding rounded up
PaddingW_ceil(screen_w, img_w) == (screen_w - img_w + 1) \div 2
PaddingW(screen_w, img_w) == (screen_w - img_w) \div 2
\* (mutant) the vertical padding of the glyph encoder used for the half-block one
BlockPaddingH_ceil_rows(screen_h, img_h) == (screen_h - (img_h + 1) \div 2) \div 2
BlockPaddingH_full_height(screen_h, img_h) == (screen_h - img_h) \div 2
BlockPaddingH(screen_h, img_h) == (screen_h - img_h \div 2) \div 2

\* (mutant) the offset of 16 forgotten
TermColor_no_offset(pixel) == pixel
\* (mutant) an escape for every pixel
TermFgChanged_always(color, current) == TRUE
\* (mutant) the row loop stepping by one
BlockNextY_by_one(sy) == sy + 1

\* color = pixels[x, y] + 16
TermColor(pixel) == pixel + 16
\* top_color = pixels[x, y] + 16; bot_color = pixels[x, y + 1] + 16
BlockColor(pixel) == pixel + 16

\* (mutant) no escape while the tracker is unset
TermFgChanged_skips_first(color, current) == color # current /\ current # -1
\* if color != current_fg
TermFgChanged(color, current) == color # current
\* if top_color != current_fg / if bot_color != current_bg
BlockFgChanged(color, current) == color # current
\* (mutant) the background escape emitted for every cell
BlockBgChanged_always(color, current) == TRUE
BlockBgChanged(color, current) == color # current

\* (mutant) the row loop stepping over a row pair
BlockNextY_by_four(sy) == sy + 4
\* range(0, img_height - 1, 2): the next row pair
BlockNextY(sy) == sy + 2

Cells(w, h) == (0..(w - 1)) \X (0..(h - 1))

\* ----------------------------------------------------------------- state
VARIABLES
    fn,                 \* which encoder the call runs
    img,                \* pixels = img.load(): [<<x, y>> -> palette index]
    img_gray,           \* pixels_gray = img_gray.load(): [<<x, y>> -> luminance]
    bg_color,
    ascii_palette,
    ascii_palette_len,
    screen_width,
    screen_height,
    img_width,
    img_height,
    padding_h,
    padding_w,
    bg,
    x,
    y,
    current_fg,
    current_bg,
    line_parts,
    out_lines,
    pc,                 \* position of the call in its function
    exc,                \* the exception or fault that ended the call, "" if none
    result,             \* the returned text
    ridx,               \* history: the ramp index of the last glyph read, -1 before any
    origin,             \* history: for each line of out_lines, the loop that appended it
    nreads,             \* history: how often each pixel of img was read
    run,                \* how many times the call was started with these inputs
    prev                \* outcome of the previous run with these inputs

inputs == <<fn, img, img_gray, bg_color, ascii_palette, ascii_palette_len,
            screen_width, screen_height, img_width, img_height>>
locals == <<padding_h, padding_w, bg, x, y, current_fg, current_bg,
            line_parts, out_lines>>
history == <<ridx, origin, nreads>>
vars == <<inputs, locals, pc, exc, result, history, run, prev>>

CallIds == DOMAIN pc

NoOutcome == [pc |-> "none", exc |-> "", result |-> <<>>]

TopRow == [loop |-> "top", y |-> 0]
ContentRow(sy) == [loop |-> "rows", y |-> sy]
BottomRow == [loop |-> "bottom", y |-> 0]

\* the row appended by the padding loops: bg + " " * screen_width + RESET
\* (mutant) the padding row left without its reset
PadRow_no_reset(c) == bg[c] \o Spaces(screen_width[c])
PadRow(c) == bg[c] \o Spaces(screen_width[c]) \o RESET

\* left padding of a content row: if padding_w > 0: bg, " " * padding_w
LeftPadding(c) ==
    IF padding_w[c] > 0 THEN <<bg[c], Spaces(padding_w[c])>> ELSE <<>>

\* (mutant) the right padding test written with <=
RightPadding_le(c) ==
    LET visible_len == padding_w[c] + img_width[c]
    IN  IF visible_len <= screen_width[c]
        THEN <<bg[c], Spaces(screen_width[c] - visible_len)>>
        ELSE <<>>

\* right padding of a content row: visible_len = padding_w + img_width;
\* if visible_len < screen_width: bg, " " * (screen_width - visible_len)
RightPadding(c) ==
    LET visible_len == padding_w[c] + img_width[c]
    IN  IF visible_len < screen_width[c]
        THEN <<bg[c], Spaces(screen_width[c] - visible_len)>>
        ELSE <<>>

\* the fragments of a colour escape, appended one by one
FgEscapeParts(color) == <<<<ESC>>, FG_PREFIX, str(color), <<"m">>>>
BgEscapeParts(color) == <<<<ESC>>, BG_PREFIX, str(color), <<"m">>>>

\* "".join(parts) raises TypeError when a part is not a str
JoinRaises(parts) == \E i \in 1..Len(parts) : parts[i] = NonStr

\* while len(out_lines) < screen_height
\* (mutant) the loop condition written with <=
TermMoreBottom_le(c) == Len(out_lines[c]) <= screen_height[c]
TermMoreBottom(c) == Len(out_lines[c]) < screen_height[c]
BlockMoreBottom(c) == Len(out_lines[c]) < screen_height[c]

\* ------------------------------------------------------------------ entry
\* the locals of a call after its prologue (lines 14-25 and 76-86)
EntryPaddingH(f, sh, ih) ==
    IF f = "img_to_term" THEN PaddingH(sh, ih) ELSE BlockPaddingH(sh, ih)

InitCalls(cs) ==
    \E f \in Fns, sw \in 0..MaxScreenW, sh \in 0..MaxScreenH,
       iw \in 0..MaxImgW, ih \in 0..MaxImgH, b \in BgValues :
      /\ iw * ih <= MaxCells
      /\ iw <= sw + MaxOverflow
      /\ (IF f = "img_to_term" THEN ih ELSE ih \div 2) <= sh + MaxOverflow
      /\ \E px \in [Cells(iw, ih) -> PixelValues] :
         \E gr \in (IF f = "img_to_term" THEN [Cells(iw, ih) -> LumValues] ELSE {<<>>}) :
         \E n \in (IF f = "img_to_term" THEN 0..MaxRamp ELSE {0}) :
            /\ fn = [c \in cs |-> f]
            /\ img = [c \in cs |-> px]
            /\ img_gray = [c \in cs |-> gr]
            /\ bg_color = [c \in cs |-> b]
            /\ ascii_palette = [c \in cs |-> Ramp(n)]
            /\ ascii_palette_len = [c \in cs |-> n]
            /\ screen_width = [c \in cs |-> sw]
            /\ screen_height = [c \in cs |-> sh]
            /\ img_width = [c \in cs |-> iw]
            /\ img_height = [c \in cs |-> ih]
            /\ padding_h = [c \in cs |-> EntryPaddingH(f, sh, ih)]
            /\ padding_w = [c \in cs |-> PaddingW(sw, iw)]
            /\ bg = [c \in cs |-> BgEscape(b)]
            /\ nreads = [c \in cs |-> [p \in Cells(iw, ih) |-> 0]]
      /\ x = [c \in cs |-> 0]
      /\ y = [c \in cs |-> 0]
      /\ current_fg = [c \in cs |-> 0]
      /\ current_bg = [c \in cs |-> 0]
      /\ line_parts = [c \in cs |-> <<>>]
      /\ out_lines = [c \in cs |-> <<>>]
      /\ pc = [c \in cs |-> "top"]
      /\ exc = [c \in cs |-> ""]
      /\ result = [c \in cs |-> <<>>]
      /\ ridx = [c \in cs |-> -1]
      /\ origin = [c \in cs |-> <<>>]
      /\ run = [c \in cs |-> 1]
      /\ prev = [c \in cs |-> NoOutcome]

Init == InitCalls({1})

\* ------------------------------------------------------------ img_to_term
\* for y in range(padding_h): out_lines.append(bg + " " * screen_width + RESET)
term_top_padding(c) ==
    /\ fn[c] = "img_to_term" /\ pc[c] = "top"
    /\ y[c] < padding_h[c]
    /\ out_lines' = [out_lines EXCEPT ![c] = Append(@, PadRow(c))]
    /\ y' = [y EXCEPT ![c] = @ + 1]
    /\ origin' = [origin EXCEPT ![c] = Append(@, TopRow)]
    /\ UNCHANGED <<inputs, padding_h, padding_w, bg, x, current_fg, current_bg,
                   line_parts, pc, exc, result, ridx, nreads, run, prev>>

term_top_done(c) ==
    /\ fn[c] = "img_to_term" /\ pc[c] = "top"
    /\ ~(y[c] < padding_h[c])
    /\ y' = [y EXCEPT ![c] = 0]
    /\ pc' = [pc EXCEPT ![c] = "rows"]
    /\ UNCHANGED <<inputs, padding_h, padding_w, bg, x, current_fg, current_bg,
                   line_parts, out_lines, exc, result, ridx, origin, nreads, run, prev>>

\* (mutant) the foreground tracker kept from one row to the next
term_row_begin_keeps_fg(c) ==
    /\ fn[c] = "img_to_term" /\ pc[c] = "rows"
    /\ y[c] < img_height[c]
    /\ line_parts' = [line_parts EXCEPT ![c] = LeftPadding(c)]
    /\ x' = [x EXCEPT ![c] = 0]
    /\ pc' = [pc EXCEPT ![c] = "pixels"]
    /\ UNCHANGED <<inputs, padding_h, padding_w, bg, y, current_fg, current_bg,
                   out_lines, exc, result, ridx, origin, nreads, run, prev>>

\* for y in range(img_height): line_parts = []; current_fg = -1; left padding
term_row_begin(c) ==
    /\ fn[c] = "img_to_term" /\ pc[c] = "rows"
    /\ y[c] < img_height[c]
    /\ line_parts' = [line_parts EXCEPT ![c] = LeftPadding(c)]
    /\ current_fg' = [current_fg EXCEPT ![c] = -1]
    /\ x' = [x EXCEPT ![c] = 0]
    /\ pc' = [pc EXCEPT ![c] = "pixels"]
    /\ UNCHANGED <<inputs, padding_h, padding_w, bg, y, current_bg,
                   out_lines, exc, result, ridx, origin, nreads, run, prev>>

\* (mutant) the ramp emptied when the rows are done
term_rows_done_empties_ramp(c) ==
    /\ fn[c] = "img_to_term" /\ pc[c] = "rows"
    /\ ~(y[c] < img_height[c])
    /\ pc' = [pc EXCEPT ![c] = "bottom"]
    /\ ascii_palette' = [ascii_palette EXCEPT ![c] = <<>>]
    /\ UNCHANGED <<fn, img, img_gray, bg_color, ascii_palette_len, screen_width,
                   screen_height, img_width, img_height>>
    /\ UNCHANGED <<locals, exc, result, ridx, origin, nreads, run, prev>>

term_rows_done(c) ==
    /\ fn[c] = "img_to_term" /\ pc[c] = "rows"
    /\ ~(y[c] < img_height[c])
    /\ pc' = [pc EXCEPT ![c] = "bottom"]
    /\ UNCHANGED <<inputs, locals, exc, result, ridx, origin, nreads, run, prev>>

\* one iteration of "for x in range(img_width)", lines 41-50
term_pixel(c) ==
    /\ fn[c] = "img_to_term" /\ pc[c] = "pixels"
    /\ x[c] < img_width[c]
    /\ LET gray_val == img_gray[c][<<x[c], y[c]>>]
           color == TermColor(img[c][<<x[c], y[c]>>])
           escape == IF TermFgChanged(color, current_fg[c])
                     THEN FgEscapeParts(color) ELSE <<>>
           i == RampIndex(gray_val, ascii_palette_len[c])
       IN  /\ ridx' = [ridx EXCEPT ![c] = i]
           /\ current_fg' = [current_fg EXCEPT ![c] = color]
           /\ \/ \E glyph \in GetItem(ascii_palette[c], i) :
                    /\ line_parts' = [line_parts EXCEPT ![c] = @ \o escape \o <<glyph>>]
                    /\ x' = [x EXCEPT ![c] = @ + 1]
                    /\ UNCHANGED <<pc, exc>>
              \/ /\ OutOfBounds(ascii_palette[c], i)
                 /\ line_parts' = [line_parts EXCEPT ![c] = @ \o escape]
                 /\ pc' = [pc EXCEPT ![c] = "aborted"]
                 /\ exc' = [exc EXCEPT ![c] = "SIGSEGV"]
                 /\ UNCHANGED x
    /\ nreads' = [nreads EXCEPT ![c][<<x[c], y[c]>>] = @ + 1]
    /\ UNCHANGED <<inputs, padding_h, padding_w, bg, y, current_bg,
                   out_lines, result, origin, run, prev>>

\* right padding, RESET, out_lines.append("".join(line_parts)), lines 52-59
term_row_end(c) ==
    /\ fn[c] = "img_to_term" /\ pc[c] = "pixels"
    /\ ~(x[c] < img_width[c])
    /\ LET parts == line_parts[c] \o RightPadding(c) \o <<RESET>>
       IN  /\ line_parts' = [line_parts EXCEPT ![c] = parts]
           /\ IF JoinRaises(parts)
              THEN /\ pc' = [pc EXCEPT ![c] = "raised"]
                   /\ exc' = [exc EXCEPT ![c] = "TypeError"]
                   /\ UNCHANGED <<out_lines, origin, y>>
              ELSE /\ out_lines' = [out_lines EXCEPT ![c] = Append(@, Concat(parts))]
                   /\ origin' = [origin EXCEPT ![c] = Append(@, ContentRow(y[c]))]
                   /\ y' = [y EXCEPT ![c] = @ + 1]
                   /\ pc' = [pc EXCEPT ![c] = "rows"]
                   /\ UNCHANGED exc
    /\ UNCHANGED <<inputs, padding_h, padding_w, bg, x, current_fg, current_bg,
                   result, ridx, nreads, run, prev>>

\* (mutant) the bottom padding loop without its append
term_bottom_padding_no_append(c) ==
    /\ fn[c] = "img_to_term" /\ pc[c] = "bottom"
    /\ TermMoreBottom(c)
    /\ UNCHANGED vars

\* while len(out_lines) < screen_height: out_lines.append(...)
term_bottom_padding(c) ==
    /\ fn[c] = "img_to_term" /\ pc[c] = "bottom"
    /\ TermMoreBottom(c)
    /\ out_lines' = [out_lines EXCEPT ![c] = Append(@, PadRow(c))]
    /\ origin' = [origin EXCEPT ![c] = Append(@, BottomRow)]
    /\ UNCHANGED <<inputs, padding_h, padding_w, bg, x, y, current_fg, current_bg,
                   line_parts, pc, exc, result, ridx, nreads, run, prev>>

\* return "\n".join(out_lines)
term_return(c) ==
    /\ fn[c] = "img_to_term" /\ pc[c] = "bottom"
    /\ ~TermMoreBottom(c)
    /\ result' = [result EXCEPT ![c] = JoinLines(out_lines[c])]
    /\ pc' = [pc EXCEPT ![c] = "returned"]
    /\ UNCHANGED <<inputs, locals, exc, ridx, origin, nreads, run, prev>>

\* ------------------------------------------------------ img_to_term_block
block_top_padding(c) ==
    /\ fn[c] = "img_to_term_block" /\ pc[c] = "top"
    /\ y[c] < padding_h[c]
    /\ out_lines' = [out_lines EXCEPT ![c] = Append(@, PadRow(c))]
    /\ y' = [y EXCEPT ![c] = @ + 1]
    /\ origin' = [origin EXCEPT ![c] = Append(@, TopRow)]
    /\ UNCHANGED <<inputs, padding_h, padding_w, bg, x, current_fg, current_bg,
                   line_parts, pc, exc, result, ridx, nreads, run, prev>>

block_top_done(c) ==
    /\ fn[c] = "img_to_term_block" /\ pc[c] = "top"
    /\ ~(y[c] < padding_h[c])
    /\ y' = [y EXCEPT ![c] = 0]
    /\ pc' = [pc EXCEPT ![c] = "rows"]
    /\ UNCHANGED <<inputs, padding_h, padding_w, bg, x, current_fg, current_bg,
                   line_parts, out_lines, exc, result, ridx, origin, nreads, run, prev>>

\* for y in range(0, img_height - 1, 2): line_parts = []; current_fg = -1;
\* current_bg = -1; left padding
block_row_begin(c) ==
    /\ fn[c] = "img_to_term_block" /\ pc[c] = "rows"
    /\ y[c] < img_height[c] - 1
    /\ line_parts' = [line_parts EXCEPT ![c] = LeftPadding(c)]
    /\ current_fg' = [current_fg EXCEPT ![c] = -1]
    /\ current_bg' = [current_bg EXCEPT ![c] = -1]
    /\ x' = [x EXCEPT ![c] = 0]
    /\ pc' = [pc EXCEPT ![c] = "pixels"]
    /\ UNCHANGED <<inputs, padding_h, padding_w, bg, y,
                   out_lines, exc, result, ridx, origin, nreads, run, prev>>

block_rows_done(c) ==
    /\ fn[c] = "img_to_term_block" /\ pc[c] = "rows"
    /\ ~(y[c] < img_height[c] - 1)
    /\ pc' = [pc EXCEPT ![c] = "bottom"]
    /\ UNCHANGED <<inputs, locals, exc, result, ridx, origin, nreads, run, prev>>

\* one iteration of "for x in range(img_width)", lines 103-118
block_pixel(c) ==
    /\ fn[c] = "img_to_term_block" /\ pc[c] = "pixels"
    /\ x[c] < img_width[c]
    /\ LET top_color == BlockColor(img[c][<<x[c], y[c]>>])
           bot_color == BlockColor(img[c][<<x[c], y[c] + 1>>])
           fg_escape == IF BlockFgChanged(top_color, current_fg[c])
                        THEN FgEscapeParts(top_color) ELSE <<>>
           bg_escape == IF BlockBgChanged(bot_color, current_bg[c])
                        THEN BgEscapeParts(bot_color) ELSE <<>>
       IN  /\ current_fg' = [current_fg EXCEPT ![c] = top_color]
           /\ current_bg' = [current_bg EXCEPT ![c] = bot_color]
           /\ line_parts' = [line_parts EXCEPT ![c] =
                                @ \o fg_escape \o bg_escape \o <<<<HALF_BLOCK>>>>]
           /\ x' = [x EXCEPT ![c] = @ + 1]
    /\ nreads' = [nreads EXCEPT ![c][<<x[c], y[c]>>] = @ + 1,
                                ![c][<<x[c], y[c] + 1>>] = @ + 1]
    /\ UNCHANGED <<inputs, padding_h, padding_w, bg, y,
                   out_lines, pc, exc, result, ridx, origin, run, prev>>

\* right padding, RESET, out_lines.append("".join(line_parts)), lines 120-127
block_row_end(c) ==
    /\ fn[c] = "img_to_term_block" /\ pc[c] = "pixels"
    /\ ~(x[c] < img_width[c])
    /\ LET parts == line_parts[c] \o RightPadding(c) \o <<RESET>>
       IN  /\ line_parts' = [line_parts EXCEPT ![c] = parts]
           /\ out_lines' = [out_lines EXCEPT ![c] = Append(@, Concat(parts))]
    /\ origin' = [origin EXCEPT ![c] = Append(@, ContentRow(y[c]))]
    /\ y' = [y EXCEPT ![c] = BlockNextY(@)]
    /\ pc' = [pc EXCEPT ![c] = "rows"]
    /\ UNCHANGED <<inputs, padding_h, padding_w, bg, x, current_fg, current_bg,
                   exc, result, ridx, nreads, run, prev>>

block_bottom_padding(c) ==
    /\ fn[c] = "img_to_term_block" /\ pc[c] = "bottom"
    /\ BlockMoreBottom(c)
    /\ out_lines' = [out_lines EXCEPT ![c] = Append(@, PadRow(c))]
    /\ origin' = [origin EXCEPT ![c] = Append(@, BottomRow)]
    /\ UNCHANGED <<inputs, padding_h, padding_w, bg, x, y, current_fg, current_bg,
                   line_parts, pc, exc, result, ridx, nreads, run, prev>>

block_return(c) ==
    /\ fn[c] = "img_to_term_block" /\ pc[c] = "bottom"
    /\ ~BlockMoreBottom(c)
    /\ result' = [result EXCEPT ![c] = JoinLines(out_lines[c])]
    /\ pc' = [pc EXCEPT ![c] = "returned"]
    /\ UNCHANGED <<inputs, locals, exc, ridx, origin, nreads, run, prev>>

\* ----------------------------------------------------------- a second run
Finished(c) == pc[c] \in {"returned", "raised", "aborted"}

Outcome(c) == [pc |-> pc[c], exc |-> exc[c], result |-> result[c]]

\* the encoder is called once more with the same arguments: every local is
\* set anew by the prologue (lines 14-25, 76-86), nothing else exists
call_again(c) ==
    /\ Finished(c)
    /\ run[c] < MaxRuns
    /\ prev' = [prev EXCEPT ![c] = Outcome(c)]
    /\ run' = [run EXCEPT ![c] = @ + 1]
    /\ padding_h' = [padding_h EXCEPT ![c] =
                        EntryPaddingH(fn[c], screen_height[c], img_height[c])]
    /\ padding_w' = [padding_w EXCEPT ![c] = PaddingW(screen_width[c], img_width[c])]
    /\ bg' = [bg EXCEPT ![c] = BgEscape(bg_color[c])]
    /\ x' = [x EXCEPT ![c] = 0]
    /\ y' = [y EXCEPT ![c] = 0]
    /\ current_fg' = [current_fg EXCEPT ![c] = 0]
    /\ current_bg' = [current_bg EXCEPT ![c] = 0]
    /\ line_parts' = [line_parts EXCEPT ![c] = <<>>]
    /\ out_lines' = [out_lines EXCEPT ![c] = <<>>]
    /\ pc' = [pc EXCEPT ![c] = "top"]
    /\ exc' = [exc EXCEPT ![c] = ""]
    /\ result' = [result EXCEPT ![c] = <<>>]
    /\ ridx' = [ridx EXCEPT ![c] = -1]
    /\ origin' = [origin EXCEPT ![c] = <<>>]
    /\ nreads' = [nreads EXCEPT ![c] = [p \in DOMAIN @ |-> 0]]
    /\ UNCHANGED inputs

\* ------------------------------------------------------------------ system
Next ==
    \/ \E c \in CallIds : term_top_padding(c)
    \/ \E c \in CallIds : term_top_done(c)
    \/ \E c \in CallIds : term_row_begin(c)
    \/ \E c \in CallIds : term_rows_done(c)
    \/ \E c \in CallIds : term_pixel(c)
    \/ \E c \in CallIds : term_row_end(c)
    \/ \E c \in CallIds : term_bottom_padding(c)
    \/ \E c \in CallIds : term_return(c)
    \/ \E c \in CallIds : block_top_padding(c)
    \/ \E c \in CallIds : block_top_done(c)
    \/ \E c \in CallIds : block_row_begin(c)
    \/ \E c \in CallIds : block_rows_done(c)
    \/ \E c \in CallIds : block_pixel(c)
    \/ \E c \in CallIds : block_row_end(c)
    \/ \E c \in CallIds : block_bottom_padding(c)
    \/ \E c \in CallIds : block_return(c)

\* one call of an encoder
Spec == Init /\ [][Next]_vars

\* one call that keeps running until it ends: a call is a sequential
\* computation that nothing suspends, so a step that can be taken is taken
SpecFair == Init /\ [][Next]_vars /\ WF_vars(Next)

\* a call and a second call with the same arguments
InitAgain ==
    /\ InitCalls({1})
    /\ img_width[1] * img_height[1] <= MaxAgainCells

NextAgain == Next \/ \E c \in CallIds : call_again(c)

SpecAgain == InitAgain /\ [][NextAgain]_vars

\* ------------------------------------------------------- concurrent calls
\* the argument tuples of encoder f on the geometry g = <<screen_width,
\* screen_height, img_width, img_height>>, pixels drawn from pixel_values
ArgsOf(f, g, pixel_values) ==
    {[fn |-> f, img |-> px, img_gray |-> gr, bg_color |-> b,
      ascii_palette_len |-> n, screen_width |-> g[1], screen_height |-> g[2],
      img_width |-> g[3], img_height |-> g[4]] :
        px \in [Cells(g[3], g[4]) -> pixel_values],
        gr \in (IF f = "img_to_term" THEN [Cells(g[3], g[4]) -> LumValues] ELSE {<<>>}),
        n \in (IF f = "img_to_term" THEN 0..MaxRamp ELSE {0}),
        b \in BgValues}

\* the argument tuples on the geometries geometries[f] of each encoder f
Args(geometries, pixel_values) ==
    UNION {UNION {ArgsOf(f, g, pixel_values) : g \in geometries[f]} : f \in Fns}

\* the calls DOMAIN a, call c with the arguments a[c]; the calls of `first`
\* have run their prologue, the others are not made yet
InitWith(a, first) ==
    LET cs == DOMAIN a
    IN  /\ fn = [c \in cs |-> a[c].fn]
        /\ img = [c \in cs |-> a[c].img]
        /\ img_gray = [c \in cs |-> a[c].img_gray]
        /\ bg_color = [c \in cs |-> a[c].bg_color]
        /\ ascii_palette = [c \in cs |-> Ramp(a[c].ascii_palette_len)]
        /\ ascii_palette_len = [c \in cs |-> a[c].ascii_palette_len]
        /\ screen_width = [c \in cs |-> a[c].screen_width]
        /\ screen_height = [c \in cs |-> a[c].screen_height]
        /\ img_width = [c \in cs |-> a[c].img_width]
        /\ img_height = [c \in cs |-> a[c].img_height]
        /\ padding_h = [c \in cs |->
                EntryPaddingH(a[c].fn, a[c].screen_height, a[c].img_height)]
        /\ padding_w = [c \in cs |-> PaddingW(a[c].screen_width, a[c].img_width)]
        /\ bg = [c \in cs |-> BgEscape(a[c].bg_color)]
        /\ nreads = [c \in cs |-> [p \in DOMAIN a[c].img |-> 0]]
        /\ x = [c \in cs |-> 0]
        /\ y = [c \in cs |-> 0]
        /\ current_fg = [c \in cs |-> 0]
        /\ current_bg = [c \in cs |-> 0]
        /\ line_parts = [c \in cs |-> <<>>]
        /\ out_lines = [c \in cs |-> <<>>]
        /\ pc = [c \in cs |-> IF c \in first THEN "top" ELSE "waiting"]
        /\ exc = [c \in cs |-> ""]
        /\ result = [c \in cs |-> <<>>]
        /\ ridx = [c \in cs |-> -1]
        /\ origin = [c \in cs |-> <<>>]
        /\ run = [c \in cs |-> 1]
        /\ prev = [c \in cs |-> NoOutcome]

PairGeometries ==
    [f \in Fns |->
        {g \in {MaxPairScreen} \X {MaxPairScreen}
                \X (0..MaxPairScreen) \X (0..MaxPairScreen) :
            g[3] * g[4] <= (IF f = "img_to_term" THEN MaxPairTermCells
                            ELSE MaxPairCells)}]

\* two calls, each with its own buffers
InitPair ==
    \E a \in [{1, 2} -> Args(PairGeometries, PixelValues)] : InitWith(a, {1})

\* call c is made once the calls before it have ended: it runs alone
call_next(c) ==
    /\ pc[c] = "waiting"
    /\ \A d \in CallIds : d < c => Finished(d)
    /\ pc' = [pc EXCEPT ![c] = "top"]
    /\ UNCHANGED <<inputs, locals, exc, result, history, run, prev>>

\* every call has run alone: all are made again with the same arguments and
\* now run with their steps interleaved
call_together ==
    /\ \A c \in CallIds : Finished(c) /\ run[c] = 1
    /\ prev' = [c \in CallIds |-> Outcome(c)]
    /\ run' = [c \in CallIds |-> 2]
    /\ padding_h' = [c \in CallIds |->
                        EntryPaddingH(fn[c], screen_height[c], img_height[c])]
    /\ padding_w' = [c \in CallIds |-> PaddingW(screen_width[c], img_width[c])]
    /\ bg' = [c \in CallIds |-> BgEscape(bg_color[c])]
    /\ x' = [c \in CallIds |-> 0]
    /\ y' = [c \in CallIds |-> 0]
    /\ current_fg' = [c \in CallIds |-> 0]
    /\ current_bg' = [c \in CallIds |-> 0]
    /\ line_parts' = [c \in CallIds |-> <<>>]
    /\ out_lines' = [c \in CallIds |-> <<>>]
    /\ pc' = [c \in CallIds |-> "top"]
    /\ exc' = [c \in CallIds |-> ""]
    /\ result' = [c \in CallIds |-> <<>>]
    /\ ridx' = [c \in CallIds |-> -1]
    /\ origin' = [c \in CallIds |-> <<>>]
    /\ nreads' = [c \in CallIds |-> [p \in DOMAIN nreads[c] |-> 0]]
    /\ UNCHANGED inputs

NextPair ==
    \/ Next
    \/ \E c \in CallIds : call_next(c)
    \/ call_together

SpecPair == InitPair /\ [][NextPair]_vars

\* ------------------------------------------------ unvalidated pixel values
WideGeometries ==
    [f \in Fns |->
        {g \in (1..MaxWideScreen) \X (1..MaxWideScreen)
                \X (0..MaxWideScreen) \X (0..MaxWideScreen) :
            g[3] * g[4] <= MaxWideCells}]

\* one call on a pixel buffer holding any integers
InitWide ==
    \E in \in Args(WideGeometries, WidePixelValues) : InitWith([c \in {1} |-> in], {1})

SpecWide == InitWide /\ [][Next]_vars

\* ------------------------------------------------- luminances in between
\* the argument tuples of small calls, the luminances drawn from MidLumValues
LumArgs ==
    UNION {{[r EXCEPT !.img_gray = gr] : gr \in [DOMAIN r.img_gray -> MidLumValues]} :
              r \in Args(WideGeometries, PixelValues)}

InitLum == \E in \in LumArgs : InitWith([c \in {1} |-> in], {1})

SpecLum == InitLum /\ [][Next]_vars

\* ================================================================ claims
\* ---------------------------------------------------- reading the output
RECURSIVE SplitFrom(_, _)
SplitFrom(text, cur) ==
    IF text = <<>> THEN (IF cur = <<>> THEN <<>> ELSE <<cur>>)
    ELSE IF Head(text) = NL THEN <<cur>> \o SplitFrom(Tail(text), <<>>)
    ELSE SplitFrom(Tail(text), Append(cur, Head(text)))

\* the lines of a text, as str.splitlines() yields them
SplitLines(text) == SplitFrom(text, <<>>)

\* how many lines of out_lines the loop k of call c appended
RowsOf(c, k) == Cardinality({i \in 1..Len(origin[c]) : origin[c][i].loop = k})

Returned(c) == pc[c] = "returned"

\* the geometries the contract covers: the image fits the viewport
ValidTerm(c) ==
    /\ fn[c] = "img_to_term"
    /\ 0 <= img_height[c] /\ img_height[c] <= screen_height[c]
    /\ 0 <= img_width[c] /\ img_width[c] <= screen_width[c]

ValidBlock(c) ==
    /\ fn[c] = "img_to_term_block"
    /\ 0 <= img_height[c] \div 2 /\ img_height[c] \div 2 <= screen_height[c]
    /\ 0 <= img_width[c] /\ img_width[c] <= screen_width[c]

\* C1: for a valid geometry the text img_to_term returns has exactly
\* screen_height lines: the top padding rows, img_height content rows and
\* the bottom padding rows.
C1_TermLineCount ==
    \A c \in CallIds :
        (ValidTerm(c) /\ Returned(c)) =>
            /\ Len(SplitLines(result[c])) = screen_height[c]
            /\ Len(out_lines[c]) = screen_height[c]
            /\ RowsOf(c, "rows") = img_height[c]
            /\ RowsOf(c, "top") + RowsOf(c, "rows") + RowsOf(c, "bottom")
                   = screen_height[c]

\* a returned call with rows of all three kinds
C1_Witness ==
    \E c \in CallIds :
        /\ ValidTerm(c) /\ Returned(c)
        /\ RowsOf(c, "top") > 0 /\ RowsOf(c, "rows") > 0 /\ RowsOf(c, "bottom") > 0

\* C2: for a valid geometry, even or odd img_height, the text
\* img_to_term_block returns has exactly screen_height lines: padding_h top
\* rows, floor(img_height / 2) content rows, the rest bottom padding.
C2_BlockLineCount ==
    \A c \in CallIds :
        (ValidBlock(c) /\ Returned(c)) =>
            /\ Len(SplitLines(result[c])) = screen_height[c]
            /\ RowsOf(c, "top") = (screen_height[c] - img_height[c] \div 2) \div 2
            /\ RowsOf(c, "rows") = img_height[c] \div 2
            /\ RowsOf(c, "bottom")
                   = screen_height[c] - RowsOf(c, "top") - RowsOf(c, "rows")
            /\ RowsOf(c, "bottom") >= 0

\* a returned call on an odd image height with rows of all three kinds
C2_Witness ==
    \E c \in CallIds :
        /\ ValidBlock(c) /\ Returned(c)
        /\ img_height[c] % 2 = 1
        /\ RowsOf(c, "top") > 0 /\ RowsOf(c, "rows") > 0 /\ RowsOf(c, "bottom") > 0

RECURSIVE Strip(_, _)
\* a text without its escape sequences (each runs from ESC to its final "m")
Strip(text, in_escape) ==
    IF text = <<>> THEN <<>>
    ELSE IF in_escape THEN Strip(Tail(text), Head(text) # "m")
    ELSE IF Head(text) = ESC THEN Strip(Tail(text), TRUE)
    ELSE <<Head(text)>> \o Strip(Tail(text), FALSE)

\* the number of cells a line occupies on the terminal
VisibleLen(text) == Len(Strip(text, FALSE))

RECURSIVE EscapesFrom(_, _, _)
\* the escape sequences of a text, in order, each without its leading ESC
EscapesFrom(text, cur, in_escape) ==
    IF text = <<>> THEN (IF in_escape THEN <<cur>> ELSE <<>>)
    ELSE IF in_escape
         THEN IF Head(text) = "m"
              THEN <<Append(cur, "m")>> \o EscapesFrom(Tail(text), <<>>, FALSE)
              ELSE EscapesFrom(Tail(text), Append(cur, Head(text)), TRUE)
    ELSE EscapesFrom(Tail(text), <<>>, Head(text) = ESC)

Escapes(text) == EscapesFrom(text, <<>>, FALSE)

EscKind(e) ==
    IF e = <<"[", "0", "m">> THEN "reset"
    ELSE IF Len(e) >= 8 /\ SubSeq(e, 1, 6) = FG_PREFIX THEN "fg"
    ELSE IF Len(e) >= 8 /\ SubSeq(e, 1, 6) = BG_PREFIX THEN "bg"
    ELSE "bad"

\* the <code> field of a colour escape
EscDigits(e) == SubSeq(e, 7, Len(e) - 1)

IsDecimal(d) ==
    /\ Len(d) >= 1
    /\ \A i \in 1..Len(d) : \E k \in 1..10 : DigitChars[k] = d[i]
    /\ Len(d) > 1 => d[1] # "0"

DigitValue(ch) == (CHOOSE k \in 1..10 : DigitChars[k] = ch) - 1

RECURSIVE DecimalValue(_)
DecimalValue(d) ==
    IF d = <<>> THEN 0
    ELSE 10 * DecimalValue(SubSeq(d, 1, Len(d) - 1)) + DigitValue(d[Len(d)])

\* the codes of the escapes of kind k in a text, in order (well-formed escapes)
RECURSIVE CodesIn(_, _)
CodesIn(escs, k) ==
    IF escs = <<>> THEN <<>>
    ELSE (IF EscKind(Head(escs)) = k
          THEN <<DecimalValue(EscDigits(Head(escs)))>> ELSE <<>>)
         \o CodesIn(Tail(escs), k)

FgCodes(text) == CodesIn(Escapes(text), "fg")
BgCodes(text) == CodesIn(Escapes(text), "bg")

Range(seq) == {seq[i] : i \in 1..Len(seq)}

\* C3: for a valid geometry every line of either encoder, padding or
\* content, is exactly screen_width cells wide once its escapes are stripped.
C3_VisibleWidth ==
    \A c \in CallIds :
        (ValidTerm(c) \/ ValidBlock(c)) =>
            \A i \in 1..Len(out_lines[c]) :
                VisibleLen(out_lines[c][i]) = screen_width[c]

\* C7: the ramp index the glyph encoder uses lies in 0 .. ramp_length - 1
\* for every luminance in 0 .. 255 and every ramp_length >= 1.
C7_RampIndexInRange ==
    \A c \in CallIds :
        (fn[c] = "img_to_term" /\ ascii_palette_len[c] >= 1 /\ ridx[c] # -1) =>
            (0 <= ridx[c] /\ ridx[c] <= ascii_palette_len[c] - 1)

\* C8: a call whose image exceeds the viewport fails with InvalidGeometry
\* and returns no text.
C8_InvalidGeometryRejected ==
    \A c \in CallIds :
        (img_width[c] > screen_width[c] \/ img_height[c] > screen_height[c]) =>
            /\ ~Returned(c)
            /\ Finished(c) => (pc[c] = "raised" /\ exc[c] = "InvalidGeometry")

\* C9: a call of the glyph encoder with ramp_length = 0 fails with
\* InvalidConfiguration, whatever the geometry.
C9_EmptyRampRejected ==
    \A c \in CallIds :
        (fn[c] = "img_to_term" /\ ascii_palette_len[c] = 0) =>
            /\ ~Returned(c)
            /\ Finished(c) => (pc[c] = "raised" /\ exc[c] = "InvalidConfiguration")

\* C4: two runs of an encoder with identical arguments produce identical
\* output: the second run returns a text exactly when the first did, and
\* the same text.
C4_SameInputsSameOutput ==
    \A c \in CallIds :
        (run[c] = 2 /\ Finished(c)) =>
            /\ Returned(c) <=> prev[c].pc = "returned"
            /\ result[c] = prev[c].result

\* every ramp read of the call stays inside the list
ReadsInRange(c) ==
    fn[c] = "img_to_term" =>
        \A p \in DOMAIN img_gray[c] :
            ~OutOfBounds(ascii_palette[c],
                         RampIndex(img_gray[c][p], ascii_palette_len[c]))

\* The statements of C3 and C4 hold of every call whose ramp reads stay
\* inside the list: the unchecked read is all that breaks them.
WidthWhenReadsInRange ==
    \A c \in CallIds :
        ((ValidTerm(c) \/ ValidBlock(c)) /\ ReadsInRange(c)) =>
            \A i \in 1..Len(out_lines[c]) :
                VisibleLen(out_lines[c][i]) = screen_width[c]

SameOutputWhenReadsInRange ==
    \A c \in CallIds :
        (run[c] = 2 /\ Finished(c) /\ ReadsInRange(c)) => Outcome(c) = prev[c]

\* the palette indices of source row sy, by column
RowPixels(c, sy) == [i \in 1..img_width[c] |-> img[c][<<i - 1, sy>>]]

\* the number of maximal runs of equal values in a sequence
Runs(seq) == Cardinality({i \in 1..Len(seq) : i = 1 \/ seq[i] # seq[i - 1]})

IsContent(c, i) == origin[c][i].loop = "rows"

\* C5: every content row of the glyph encoder holds as many foreground
\* escapes as its pixel sequence has maximal runs of equal colour.
C5_FgEscapesEqualRuns ==
    \A c \in CallIds :
        fn[c] = "img_to_term" =>
            \A i \in 1..Len(out_lines[c]) :
                IsContent(c, i) =>
                    Len(FgCodes(out_lines[c][i]))
                        = Runs(RowPixels(c, origin[c][i].y))

\* a finished row of three or more pixels in two runs
C5_Witness ==
    \E c \in CallIds :
        /\ fn[c] = "img_to_term" /\ img_width[c] >= 3
        /\ \E i \in 1..Len(out_lines[c]) :
              /\ IsContent(c, i)
              /\ Runs(RowPixels(c, origin[c][i].y)) = 2
              /\ Len(FgCodes(out_lines[c][i])) = 2

\* the source rows of the content rows of call c, in output order
ContentYs(c) ==
    LET idx == {i \in 1..Len(origin[c]) : IsContent(c, i)}
        first == CHOOSE i \in idx : \A j \in idx : i <= j
    IN  [k \in 1..Cardinality(idx) |-> origin[c][first + k - 1].y]

\* C6: the half-block encoder reads the row pairs (0,1), (2,3), ... below
\* img_height: no pixel is read twice, for an even img_height every pixel is
\* read exactly once, for an odd img_height the last row is never read, and
\* the text still has screen_height lines.
C6_RowPairing ==
    \A c \in CallIds :
        fn[c] = "img_to_term_block" =>
            /\ \A p \in DOMAIN nreads[c] : nreads[c][p] <= 1
            /\ img_height[c] % 2 = 1 =>
                  \A p \in DOMAIN nreads[c] :
                      p[2] = img_height[c] - 1 => nreads[c][p] = 0
            /\ \A i \in 1..Len(origin[c]) :
                  IsContent(c, i) =>
                      /\ origin[c][i].y % 2 = 0
                      /\ origin[c][i].y + 1 < img_height[c]
            /\ Returned(c) =>
                  /\ \A p \in DOMAIN nreads[c] :
                        p[2] < 2 * (img_height[c] \div 2) => nreads[c][p] = 1
                  /\ ContentYs(c) = [k \in 1..(img_height[c] \div 2) |-> 2 * (k - 1)]
                  /\ ValidBlock(c) => Len(SplitLines(result[c])) = screen_height[c]

\* a returned call on three source rows: one pair rendered, row 2 not read
C6_Witness ==
    \E c \in CallIds :
        /\ fn[c] = "img_to_term_block" /\ Returned(c) /\ ValidBlock(c)
        /\ img_height[c] = 3 /\ img_width[c] >= 1
        /\ ContentYs(c) = <<0>>
        /\ nreads[c][<<0, 1>>] = 1 /\ nreads[c][<<0, 2>>] = 0

WellFormedEscape(e) ==
    /\ EscKind(e) # "bad"
    /\ EscKind(e) \in {"fg", "bg"} =>
          /\ IsDecimal(EscDigits(e))
          /\ DecimalValue(EscDigits(e)) \in 0..255

RowCodes(c, sy) == {img[c][<<i, sy>>] + 16 : i \in 0..(img_width[c] - 1)}

\* C10: every escape either encoder emits is ESC[38;5;<code>m, ESC[48;5;<code>m
\* or ESC[0m with <code> a decimal number in 0..255; the codes taken from
\* pixels are exactly pixel + 16 (in 16..255), the others are bg_color.
C10_EscapeFormat ==
    \A c \in CallIds :
        /\ \A i \in 1..Len(out_lines[c]) :
              LET escs == Escapes(out_lines[c][i])
                  fg == Range(CodesIn(escs, "fg"))
                  bgc == Range(CodesIn(escs, "bg"))
                  sy == origin[c][i].y
              IN  /\ \A e \in Range(escs) : WellFormedEscape(e)
                  /\ ~IsContent(c, i) => (fg = {} /\ bgc = {bg_color[c]})
                  /\ IsContent(c, i) =>
                        (fg = RowCodes(c, sy) /\ fg \subseteq 16..255)
                  /\ (IsContent(c, i) /\ fn[c] = "img_to_term") =>
                        bgc \subseteq {bg_color[c]}
                  /\ (IsContent(c, i) /\ fn[c] = "img_to_term_block") =>
                        /\ RowCodes(c, sy + 1) \subseteq bgc
                        /\ bgc \subseteq (RowCodes(c, sy + 1) \cup {bg_color[c]})
                        /\ RowCodes(c, sy + 1) \subseteq 16..255
        /\ Returned(c) =>
              \A e \in Range(Escapes(result[c])) : WellFormedEscape(e)

\* a returned call whose text holds the foreground codes 16 and 255
C10_Witness ==
    \E c \in CallIds :
        /\ Returned(c)
        /\ {16, 255} \subseteq Range(FgCodes(result[c]))
        /\ bg_color[c] \in Range(BgCodes(result[c]))

\* the escapes of a text that are resets
Resets(text) ==
    LET escs == Escapes(text)
    IN  {i \in 1..Len(escs) : escs[i] = <<"[", "0", "m">>}

EndsWith(text, tail) ==
    /\ Len(text) >= Len(tail)
    /\ SubSeq(text, Len(text) - Len(tail) + 1, Len(text)) = tail

\* a row that ends with its only reset
ResetTerminated(row) ==
    /\ EndsWith(row, RESET)
    /\ Cardinality(Resets(row)) = 1

\* C11: in both encoders every row of the output, padding or content, ends
\* with ESC[0m, holds that reset exactly once, and nothing follows it: no
\* fragment is appended to a row after its reset, and every line of the
\* returned text ends with it.
C11_RowEndsWithReset ==
    \A c \in CallIds :
        /\ \A i \in 1..Len(out_lines[c]) : ResetTerminated(out_lines[c][i])
        /\ \A k \in 1..Len(line_parts[c]) :
              line_parts[c][k] = RESET => k = Len(line_parts[c])
        /\ Returned(c) =>
              LET lines == SplitLines(result[c])
              IN  /\ Len(lines) = Len(out_lines[c])
                  /\ \A i \in 1..Len(lines) : ResetTerminated(lines[i])

\* a returned half-block call with rows of all three kinds, the content row
\* with right padding before its reset
C11_Witness ==
    \E c \in CallIds :
        /\ fn[c] = "img_to_term_block" /\ Returned(c)
        /\ RowsOf(c, "top") > 0 /\ RowsOf(c, "rows") > 0 /\ RowsOf(c, "bottom") > 0
        /\ img_width[c] >= 1 /\ padding_w[c] + img_width[c] < screen_width[c]
        /\ \A i \in 1..Len(out_lines[c]) : ResetTerminated(out_lines[c][i])

\* C12: a call whose steps are interleaved with those of another call, each
\* call with its own buffers, returns exactly what it returned when it ran
\* alone: a text both times or neither time, and the same text.
C12_InterleavedAsAlone ==
    \A c \in CallIds :
        (run[c] = 2 /\ Finished(c)) =>
            IF prev[c].pc = "returned"
            THEN Returned(c) /\ result[c] = prev[c].result
            ELSE ~Returned(c)

\* The statement of C12 holds of every call whose ramp reads stay inside the
\* list, whatever the other call does: the calls share no variable.
InterleavedAsAloneWhenReadsInRange ==
    \A c \in CallIds :
        (run[c] = 2 /\ Finished(c) /\ ReadsInRange(c)) => Outcome(c) = prev[c]

\* C13: no step of either encoder changes the pixel buffer, the luminance
\* buffer, the glyph ramp, its length, the background code or the geometry:
\* from entry to the end of the call every input keeps its value.
C13_InputsReadOnly ==
    [][/\ img' = img /\ img_gray' = img_gray
       /\ ascii_palette' = ascii_palette /\ ascii_palette_len' = ascii_palette_len
       /\ bg_color' = bg_color
       /\ screen_width' = screen_width /\ screen_height' = screen_height
       /\ img_width' = img_width /\ img_height' = img_height]_vars

\* a returned call that has read every pixel of an image of several cells
C13_Witness ==
    \E c \in CallIds :
        /\ Returned(c) /\ ascii_palette_len[c] >= 1
        /\ img_width[c] * img_height[c] >= 2
        /\ \A p \in DOMAIN nreads[c] : nreads[c][p] = 1

\* the steps a call has still to take at most: one per remaining iteration
\* of each loop, plus the loop exits and the return
StepsLeft(c) ==
    LET rows == IF fn[c] = "img_to_term" THEN img_height[c]
                ELSE img_height[c] \div 2
        done == IF pc[c] = "top" THEN 0
                ELSE IF fn[c] = "img_to_term" THEN y[c] ELSE y[c] \div 2
        per_row == img_width[c] + 2
        top == IF pc[c] = "top"
               THEN (IF padding_h[c] > y[c] THEN padding_h[c] - y[c] ELSE 0) + 1
               ELSE 0
        in_row == IF pc[c] = "pixels" THEN per_row - (x[c] + 1) ELSE 0
        body == IF pc[c] \in {"top", "rows"} THEN (rows - done) * per_row + 1
                ELSE IF pc[c] = "pixels" THEN (rows - done - 1) * per_row + 1 + in_row
                ELSE 0
        bottom == (IF screen_height[c] > Len(out_lines[c])
                   THEN screen_height[c] - Len(out_lines[c]) ELSE 0) + 1
    IN  IF Finished(c) THEN 0 ELSE top + body + bottom

\* every step of a call lowers the number of steps it has left, which is
\* fixed at entry by padding_h, img_height, img_width and screen_height
StepsLeftDecreases ==
    [][\A c \in CallIds : StepsLeft(c)' < StepsLeft(c) /\ StepsLeft(c)' >= 0]_vars

\* C14: for every geometry, valid or not, both encoders terminate: a call
\* that keeps running ends (returned, raised or faulted).
C14_Terminates == <>(\A c \in CallIds : Finished(c))

\* a returned call on an image higher than the viewport, and one that went
\* through all three loops
C14_Witness ==
    \E c \in CallIds :
        /\ Returned(c)
        /\ img_height[c] > screen_height[c] /\ img_width[c] >= 1
        /\ Len(out_lines[c]) > screen_height[c]

\* scenario 1: a 2x2 image of colour code 0 and luminance 0 on a 4x2
\* viewport, a ramp of length 2
Scenario1(c) ==
    /\ fn[c] = "img_to_term"
    /\ screen_width[c] = 4 /\ screen_height[c] = 2
    /\ img_width[c] = 2 /\ img_height[c] = 2
    /\ \A p \in DOMAIN img[c] : img[c][p] = 0
    /\ \A p \in DOMAIN img_gray[c] : img_gray[c][p] = 0
    /\ Len(ascii_palette[c]) = 2 /\ ascii_palette_len[c] = 2

\* the content row of scenario 1: one background-filled padding column, one
\* foreground escape of code 16, ramp[0] twice, one background-filled padding
\* column, the reset
Scenario1Row(c) ==
    LET bg_escape == <<ESC, "[", "4", "8", ";", "5", ";">> \o str(bg_color[c]) \o <<"m">>
        glyph == ascii_palette[c][1]
    IN  bg_escape \o <<" ">>
        \o <<ESC, "[", "3", "8", ";", "5", ";", "1", "6", "m">>
        \o glyph \o glyph
        \o bg_escape \o <<" ">>
        \o <<ESC, "[", "0", "m">>

\* C15: in scenario 1 the glyph encoder returns two content rows and no
\* padding row, each row being Scenario1Row.
C15_Scenario1 ==
    \A c \in CallIds :
        (Scenario1(c) /\ Finished(c)) =>
            /\ Returned(c)
            /\ out_lines[c] = <<Scenario1Row(c), Scenario1Row(c)>>
            /\ result[c] = Scenario1Row(c) \o <<NL>> \o Scenario1Row(c)
            /\ RowsOf(c, "rows") = 2
            /\ RowsOf(c, "top") = 0 /\ RowsOf(c, "bottom") = 0

\* the call of scenario 1 has returned
C15_Witness ==
    \E c \in CallIds :
        /\ Scenario1(c) /\ Returned(c)
        /\ Len(SplitLines(result[c])) = 2

\* the kinds of the escapes of a text, in order
EscKinds(text) ==
    LET escs == Escapes(text)
    IN  [i \in 1..Len(escs) |-> EscKind(escs[i])]

\* C16: when img_width = screen_width (padding_w = 0) a content row of the
\* glyph encoder holds no padding fragment: no background escape, no space;
\* it is foreground escapes and glyphs only, then the trailing reset.
C16_NoPaddingWhenFull ==
    \A c \in CallIds :
        (fn[c] = "img_to_term" /\ img_width[c] = screen_width[c]) =>
            /\ padding_w[c] = 0
            /\ \A i \in 1..Len(out_lines[c]) :
                  IsContent(c, i) =>
                      LET row == out_lines[c][i]
                          kinds == EscKinds(row)
                      IN  /\ \A k \in 1..Len(row) : row[k] # " "
                          /\ Len(kinds) >= 1
                          /\ kinds[Len(kinds)] = "reset"
                          /\ \A k \in 1..(Len(kinds) - 1) : kinds[k] = "fg"
                          /\ EndsWith(row, RESET)
                          /\ Len(Strip(row, FALSE)) >= img_width[c]

\* a content row of two cells or more on a viewport exactly as wide
C16_Witness ==
    \E c \in CallIds :
        /\ fn[c] = "img_to_term" /\ img_width[c] = screen_width[c]
        /\ img_width[c] >= 2
        /\ \E i \in 1..Len(out_lines[c]) :
              /\ IsContent(c, i)
              /\ EscKinds(out_lines[c][i]) = <<"fg", "fg", "reset">>

RECURSIVE LeadFrom(_, _)
\* what a row holds before its first cell that is not a space: padding and
\* the escapes in force for that cell
LeadFrom(text, in_escape) ==
    IF text = <<>> THEN <<>>
    ELSE IF in_escape THEN <<Head(text)>> \o LeadFrom(Tail(text), Head(text) # "m")
    ELSE IF Head(text) = ESC THEN <<ESC>> \o LeadFrom(Tail(text), TRUE)
    ELSE IF Head(text) = " " THEN <<" ">> \o LeadFrom(Tail(text), FALSE)
    ELSE <<>>

Lead(text) == LeadFrom(text, FALSE)

\* C17: the escape trackers are unset (-1) when a content row starts, -1 is
\* the colour of no pixel in [0,239], and so the first pixel of every content
\* row is preceded by its own foreground escape (in half-block rows also by
\* its own background escape), whatever colour ended the row before.
C17_RowsEscapeIndependent ==
    \A c \in CallIds :
        /\ (pc[c] = "pixels" /\ x[c] = 0) =>
              /\ current_fg[c] = -1
              /\ fn[c] = "img_to_term_block" => current_bg[c] = -1
        /\ \A p \in DOMAIN img[c] : img[c][p] + 16 # -1
        /\ img_width[c] >= 1 =>
              \A i \in 1..Len(out_lines[c]) :
                  IsContent(c, i) =>
                      LET lead == Lead(out_lines[c][i])
                          sy == origin[c][i].y
                          pad == IF padding_w[c] > 0 THEN <<bg_color[c]>> ELSE <<>>
                      IN  /\ FgCodes(lead) = <<img[c][<<0, sy>>] + 16>>
                          /\ fn[c] = "img_to_term" => BgCodes(lead) = pad
                          /\ fn[c] = "img_to_term_block" =>
                                BgCodes(lead) = pad \o <<img[c][<<0, sy + 1>>] + 16>>

\* two content rows, the second starting with the colour the first ended
\* with, and still with its foreground escape
C17_Witness ==
    \E c \in CallIds :
        /\ fn[c] = "img_to_term" /\ img_width[c] >= 1
        /\ Len(out_lines[c]) >= 2
        /\ IsContent(c, 1) /\ IsContent(c, 2)
        /\ img[c][<<img_width[c] - 1, 0>>] = img[c][<<0, 1>>]
        /\ FgCodes(Lead(out_lines[c][2])) = <<img[c][<<0, 1>>] + 16>>

\* the <code> field of a colour escape as an integer, with its sign
SignedValue(d) ==
    IF d # <<>> /\ d[1] = "-" THEN 0 - DecimalValue(Tail(d)) ELSE DecimalValue(d)

RECURSIVE SignedCodesIn(_, _)
SignedCodesIn(escs, k) ==
    IF escs = <<>> THEN <<>>
    ELSE (IF EscKind(Head(escs)) = k
          THEN <<SignedValue(EscDigits(Head(escs)))>> ELSE <<>>)
         \o SignedCodesIn(Tail(escs), k)

RECURSIVE DueCodes(_, _)
\* the codes of the escapes that are due along a row of pixel values: v + 16
\* for the first pixel and for every pixel that differs from the one before
DueCodes(seq, i) ==
    IF i > Len(seq) THEN <<>>
    ELSE (IF i = 1 \/ seq[i] # seq[i - 1] THEN <<seq[i] + 16>> ELSE <<>>)
         \o DueCodes(seq, i + 1)

\* the background codes of the padding fragments of a content row
LeftPadCodes(c) ==
    IF (screen_width[c] - img_width[c]) \div 2 > 0 THEN <<bg_color[c]>> ELSE <<>>
RightPadCodes(c) ==
    IF (screen_width[c] - img_width[c]) \div 2 + img_width[c] < screen_width[c]
    THEN <<bg_color[c]>> ELSE <<>>

\* content row i of call c carries exactly the escapes that are due
PassedThrough(c, i) ==
    LET escs == Escapes(out_lines[c][i])
        sy == origin[c][i].y
    IN  /\ SignedCodesIn(escs, "fg") = DueCodes(RowPixels(c, sy), 1)
        /\ fn[c] = "img_to_term_block" =>
              SignedCodesIn(escs, "bg")
                  = LeftPadCodes(c) \o DueCodes(RowPixels(c, sy + 1), 1)
                        \o RightPadCodes(c)

\* C18: whatever integers the pixel buffer holds, every escape that is due
\* (first pixel of a row, or a change of colour) is emitted and carries
\* exactly v + 16.
C18_CodesPassedThrough ==
    \A c \in CallIds :
        \A i \in 1..Len(out_lines[c]) : IsContent(c, i) => PassedThrough(c, i)

\* The statement of C18 holds of every row whose first pixels are not -17:
\* only the colour -1, the value of the unset tracker, is lost.
PassedThroughUnlessSentinel ==
    \A c \in CallIds :
        \A i \in 1..Len(out_lines[c]) :
            (/\ IsContent(c, i)
             /\ img_width[c] >= 1 =>
                   /\ img[c][<<0, origin[c][i].y>>] # -17
                   /\ fn[c] = "img_to_term_block" =>
                         img[c][<<0, origin[c][i].y + 1>>] # -17)
                => PassedThrough(c, i)

\* a row of n background-filled cells: the background escape of code b, n
\* spaces, the reset
FilledRow(b, n) ==
    <<ESC, "[", "4", "8", ";", "5", ";">> \o str(b) \o <<"m">>
        \o [k \in 1..n |-> " "] \o <<ESC, "[", "0", "m">>

\* C19: for every valid geometry the glyph encoder puts exactly
\* floor((screen_height - img_height) / 2) background-filled rows before the
\* first content row and exactly screen_height - padding_h - img_height after
\* the last one, the content rows in source order between them.
C19_VerticalCentring ==
    \A c \in CallIds :
        (ValidTerm(c) /\ Returned(c)) =>
            LET above == (screen_height[c] - img_height[c]) \div 2
                below == screen_height[c] - above - img_height[c]
            IN  /\ Len(out_lines[c]) = above + img_height[c] + below
                /\ below >= above /\ below <= above + 1
                /\ \A i \in 1..Len(out_lines[c]) :
                      IF i <= above
                      THEN /\ origin[c][i].loop = "top"
                           /\ out_lines[c][i] = FilledRow(bg_color[c], screen_width[c])
                      ELSE IF i <= above + img_height[c]
                      THEN origin[c][i] = ContentRow(i - above - 1)
                      ELSE /\ origin[c][i].loop = "bottom"
                           /\ out_lines[c][i] = FilledRow(bg_color[c], screen_width[c])
                /\ result[c] = JoinLines(out_lines[c])

\* a returned call with screen_height - img_height odd: one row more below
\* the image than above it
C19_Witness ==
    \E c \in CallIds :
        /\ ValidTerm(c) /\ Returned(c)
        /\ img_height[c] >= 1
        /\ (screen_height[c] - img_height[c]) % 2 = 1
        /\ RowsOf(c, "bottom") = RowsOf(c, "top") + 1

\* n background-filled columns: the background escape of code b and n spaces
FilledColumns(b, n) ==
    <<ESC, "[", "4", "8", ";", "5", ";">> \o str(b) \o <<"m">> \o [k \in 1..n |-> " "]

\* the cells of a content row between its paddings: no space; for an image
\* of some width it starts with a foreground escape and ends with a cell
ImageCells(mid, width) ==
    /\ \A k \in 1..Len(mid) : mid[k] # " "
    /\ width <= 0 => mid = <<>>
    /\ width > 0 =>
          /\ Len(mid) >= 2
          /\ mid[1] = ESC /\ EscKind(Escapes(mid)[1]) = "fg"
          /\ mid[Len(mid)] # "m"

\* C20: in both encoders a content row is padding_w =
\* floor((screen_width - img_width) / 2) background-filled columns (a
\* fragment present only when padding_w > 0), the image cells,
\* screen_width - padding_w - img_width background-filled columns (a fragment
\* present if and only if padding_w + img_width < screen_width), the reset.
C20_HorizontalCentring ==
    \A c \in CallIds :
        \A i \in 1..Len(out_lines[c]) :
            IsContent(c, i) =>
                LET row == out_lines[c][i]
                    pw == (screen_width[c] - img_width[c]) \div 2
                    rw == screen_width[c] - pw - img_width[c]
                    left == IF pw > 0 THEN FilledColumns(bg_color[c], pw) ELSE <<>>
                    right == IF pw + img_width[c] < screen_width[c]
                             THEN FilledColumns(bg_color[c], rw) ELSE <<>>
                    tail == right \o <<ESC, "[", "0", "m">>
                IN  /\ Len(row) >= Len(left) + Len(tail)
                    /\ SubSeq(row, 1, Len(left)) = left
                    /\ EndsWith(row, tail)
                    /\ ImageCells(SubSeq(row, Len(left) + 1, Len(row) - Len(tail)),
                                  img_width[c])
                    /\ img_width[c] <= screen_width[c] =>
                          (rw >= pw /\ rw <= pw + 1 /\ pw + img_width[c] + rw = screen_width[c])
                    /\ img_width[c] > screen_width[c] => (left = <<>> /\ right = <<>>)

\* a half-block content row with one padding column on the left and two on
\* the right
C20_Witness ==
    \E c \in CallIds :
        /\ fn[c] = "img_to_term_block"
        /\ screen_width[c] = 4 /\ img_width[c] = 1
        /\ \E i \in 1..Len(out_lines[c]) :
              /\ IsContent(c, i)
              /\ SubSeq(out_lines[c][i], 1, Len(bg[c]) + 1) = bg[c] \o <<" ">>
              /\ EndsWith(out_lines[c][i], <<"m", " ", " ", ESC, "[", "0", "m">>)

RECURSIVE ReplayFrom(_, _, _, _, _)
\* a terminal replaying a text from the reset state: the visible cells in
\* order, each with the foreground and background in force when it is
\* written (<<>> when none is, <<code>> otherwise)
ReplayFrom(text, fgc, bgc, cur, in_escape) ==
    IF text = <<>> THEN <<>>
    ELSE IF in_escape
         THEN IF Head(text) = "m"
              THEN LET e == Append(cur, "m")
                       k == EscKind(e)
                   IN  ReplayFrom(Tail(text),
                           IF k = "fg" THEN <<SignedValue(EscDigits(e))>>
                           ELSE IF k = "reset" THEN <<>> ELSE fgc,
                           IF k = "bg" THEN <<SignedValue(EscDigits(e))>>
                           ELSE IF k = "reset" THEN <<>> ELSE bgc,
                           <<>>, FALSE)
              ELSE ReplayFrom(Tail(text), fgc, bgc, Append(cur, Head(text)), TRUE)
    ELSE IF Head(text) = ESC THEN ReplayFrom(Tail(text), fgc, bgc, <<>>, TRUE)
    ELSE <<[ch |-> Head(text), fg |-> fgc, bg |-> bgc]>>
             \o ReplayFrom(Tail(text), fgc, bgc, <<>>, FALSE)

Replay(text) == ReplayFrom(text, <<>>, <<>>, <<>>, FALSE)

\* the padding columns left and right of the image cells of a content row
LeftColumns(c) ==
    LET pw == (screen_width[c] - img_width[c]) \div 2
    IN  IF pw > 0 THEN pw ELSE 0
RightColumns(c) ==
    LET pw == (screen_width[c] - img_width[c]) \div 2
    IN  IF pw + img_width[c] < screen_width[c]
        THEN screen_width[c] - pw - img_width[c] ELSE 0

\* C21: in the glyph encoder (non-empty ramp) every pixel with luminance
\* below 255 puts, in column order, exactly one glyph into its row, the glyph
\* ramp[floor(luminance * ramp_length / 255)], written with the foreground
\* pixel + 16 in force; the index is 0 for luminance 0, never decreases as
\* the luminance grows and stays inside the ramp.
C21_GlyphPerPixel ==
    /\ \A n \in 1..MaxRamp : \A l \in 0..254 :
          /\ RampIndex(l, n) = (l * n) \div 255
          /\ RampIndex(0, n) = 0
          /\ RampIndex(l, n) \in 0..(n - 1)
          /\ l < 254 => RampIndex(l, n) <= RampIndex(l + 1, n)
    /\ \A c \in CallIds :
          (fn[c] = "img_to_term" /\ ascii_palette_len[c] >= 1) =>
              /\ (pc[c] = "pixels" /\ x[c] > 0 /\ img_gray[c][<<x[c] - 1, y[c]>>] < 255) =>
                    ridx[c] = (img_gray[c][<<x[c] - 1, y[c]>>] * ascii_palette_len[c]) \div 255
              /\ \A i \in 1..Len(out_lines[c]) :
                    IsContent(c, i) =>
                        LET cells == Replay(out_lines[c][i])
                            sy == origin[c][i].y
                            dim == {k \in 0..(img_width[c] - 1) :
                                       \A j \in 0..k : img_gray[c][<<j, sy>>] < 255}
                        IN  /\ \A k \in dim :
                                  LET idx == (img_gray[c][<<k, sy>>] * ascii_palette_len[c]) \div 255
                                      cell == cells[LeftColumns(c) + k + 1]
                                  IN  /\ idx < Len(ascii_palette[c])
                                      /\ <<cell.ch>> = ascii_palette[c][idx + 1]
                                      /\ cell.fg = <<img[c][<<k, sy>>] + 16>>
                            /\ Cardinality(dim) = img_width[c] =>
                                  Len(cells) = LeftColumns(c) + img_width[c] + RightColumns(c)

\* a row of two pixels of luminances 0 and 128 on a ramp of two glyphs:
\* ramp[0], then ramp[1]
C21_Witness ==
    \E c \in CallIds :
        /\ fn[c] = "img_to_term" /\ ascii_palette_len[c] = 2 /\ img_width[c] = 2
        /\ \E i \in 1..Len(out_lines[c]) :
              /\ IsContent(c, i)
              /\ img_gray[c][<<0, origin[c][i].y>>] = 0
              /\ img_gray[c][<<1, origin[c][i].y>>] = 128
              /\ Strip(out_lines[c][i], FALSE) = ascii_palette[c][1] \o ascii_palette[c][2]

\* C22: the half-block encoder computes its top padding from the number of
\* output rows, padding_h = floor((screen_height - floor(img_height / 2)) / 2),
\* not from img_height, and emits exactly that many background-filled rows
\* before the first content row; padding_w is
\* floor((screen_width - img_width) / 2) in both encoders.
C22_BlockTopPadding ==
    \A c \in CallIds :
        /\ padding_w[c] = (screen_width[c] - img_width[c]) \div 2
        /\ fn[c] = "img_to_term_block" =>
              LET rows == img_height[c] \div 2
                  above == (screen_height[c] - rows) \div 2
                  emitted == IF above > 0 THEN above ELSE 0
              IN  /\ padding_h[c] = above
                  /\ RowsOf(c, "top") <= emitted
                  /\ pc[c] # "top" => RowsOf(c, "top") = emitted
                  /\ \A i \in 1..Len(out_lines[c]) :
                        /\ i <= RowsOf(c, "top") =>
                              /\ origin[c][i].loop = "top"
                              /\ out_lines[c][i] = FilledRow(bg_color[c], screen_width[c])
                        /\ i > RowsOf(c, "top") => origin[c][i].loop # "top"

\* a half-block call past its top padding where the two formulas differ:
\* rows above the image although (screen_height - img_height) / 2 has none
C22_Witness ==
    \E c \in CallIds :
        /\ fn[c] = "img_to_term_block" /\ pc[c] # "top"
        /\ (screen_height[c] - img_height[c]) \div 2 = 0
        /\ RowsOf(c, "top") = 1
        /\ RowsOf(c, "rows") >= 1

RECURSIVE BlockCells(_, _, _)
\* the first k cells of the half-block row of source rows sy and sy + 1 as
\* the trackers prescribe them: before the glyph the foreground escape if
\* the cell is the first or its upper colour differs from the previous
\* cell's, then the background escape if it is the first or its lower colour
\* differs
BlockCells(c, sy, k) ==
    IF k <= 0 THEN <<>>
    ELSE LET top == img[c][<<k - 1, sy>>] + 16
             bot == img[c][<<k - 1, sy + 1>>] + 16
             fg_due == k = 1 \/ top # img[c][<<k - 2, sy>>] + 16
             bg_due == k = 1 \/ bot # img[c][<<k - 2, sy + 1>>] + 16
         IN  BlockCells(c, sy, k - 1)
                 \o (IF fg_due
                     THEN <<ESC, "[", "3", "8", ";", "5", ";">> \o str(top) \o <<"m">>
                     ELSE <<>>)
                 \o (IF bg_due
                     THEN <<ESC, "[", "4", "8", ";", "5", ";">> \o str(bot) \o <<"m">>
                     ELSE <<>>)
                 \o <<"▀">>

\* the left and right padding fragments of a content row
LeftFragment(c) ==
    IF LeftColumns(c) > 0 THEN FilledColumns(bg_color[c], LeftColumns(c)) ELSE <<>>
RightFragment(c) ==
    IF RightColumns(c) > 0 THEN FilledColumns(bg_color[c], RightColumns(c)) ELSE <<>>

\* C23: the half-block encoder tracks foreground and background
\* independently: before a cell's glyph it emits a foreground escape exactly
\* when the cell is the first of its row or its upper colour differs from
\* the previous cell's, and a background escape exactly when it is the first
\* or its lower colour differs; neither change emits the other escape, and
\* when both are emitted the foreground escape comes first.
C23_BlockIndependentTracking ==
    \A c \in CallIds :
        fn[c] = "img_to_term_block" =>
            /\ pc[c] = "pixels" =>
                  /\ Concat(line_parts[c]) = LeftFragment(c) \o BlockCells(c, y[c], x[c])
                  /\ x[c] > 0 =>
                        /\ current_fg[c] = img[c][<<x[c] - 1, y[c]>>] + 16
                        /\ current_bg[c] = img[c][<<x[c] - 1, y[c] + 1>>] + 16
            /\ \A i \in 1..Len(out_lines[c]) :
                  IsContent(c, i) =>
                      out_lines[c][i] = LeftFragment(c)
                                            \o BlockCells(c, origin[c][i].y, img_width[c])
                                            \o RightFragment(c)
                                            \o <<ESC, "[", "0", "m">>

\* a half-block row of two cells, no padding, whose upper colours differ and
\* whose lower colours agree: foreground, background, foreground, reset
C23_Witness ==
    \E c \in CallIds :
        /\ fn[c] = "img_to_term_block" /\ img_width[c] = 2 /\ screen_width[c] = 2
        /\ \E i \in 1..Len(out_lines[c]) :
              /\ IsContent(c, i)
              /\ img[c][<<0, origin[c][i].y>>] # img[c][<<1, origin[c][i].y>>]
              /\ img[c][<<0, origin[c][i].y + 1>>] = img[c][<<1, origin[c][i].y + 1>>]
              /\ EscKinds(out_lines[c][i]) = <<"fg", "bg", "fg", "reset">>

\* C24: every image cell of the half-block encoder emits the upper half
\* block, also when its two colours are equal: the visible characters of a
\* content row are the left padding spaces, exactly img_width upper half
\* blocks and the right padding spaces, nothing else.
C24_BlockGlyphFixed ==
    \A c \in CallIds :
        fn[c] = "img_to_term_block" =>
            /\ pc[c] = "pixels" =>
                  Strip(Concat(line_parts[c]), FALSE)
                      = [k \in 1..LeftColumns(c) |-> " "] \o [k \in 1..x[c] |-> "▀"]
            /\ \A i \in 1..Len(out_lines[c]) :
                  IsContent(c, i) =>
                      Strip(out_lines[c][i], FALSE)
                          = [k \in 1..LeftColumns(c) |-> " "]
                                \o [k \in 1..img_width[c] |-> "▀"]
                                \o [k \in 1..RightColumns(c) |-> " "]

\* a half-block row with a cell whose upper and lower pixels have the same
\* colour, drawn with the upper half block all the same
C24_Witness ==
    \E c \in CallIds :
        /\ fn[c] = "img_to_term_block" /\ img_width[c] = 2 /\ screen_width[c] = 2
        /\ \E i \in 1..Len(out_lines[c]) :
              /\ IsContent(c, i)
              /\ \A k \in 0..(img_width[c] - 1) :
                    img[c][<<k, origin[c][i].y>>] = img[c][<<k, origin[c][i].y + 1>>]
              /\ Strip(out_lines[c][i], FALSE) = <<"▀", "▀">>

\* the code of the last colour escape of a kind in a text, -1 if it has none
LastCode(text, kind) ==
    LET codes == SignedCodesIn(Escapes(text), kind)
    IN  IF codes = <<>> THEN -1 ELSE codes[Len(codes)]

\* C25: coalescing preserves the rendering. Replaying a content row from
\* the state with no colour active, the foreground in force at each glyph is
\* that pixel's value + 16 and, in the half-block encoder, the background in
\* force is the lower pixel's value + 16, as if the escapes were emitted for
\* every cell; after every cell scanned the trackers equal the codes of the
\* last escapes emitted in the row, and before the first they are unset and
\* the scan has emitted none.
C25_CoalescingPreservesRendering ==
    \A c \in CallIds :
        /\ pc[c] = "pixels" =>
              LET text == Concat(line_parts[c])
                  cells == Replay(text)
                  block == fn[c] = "img_to_term_block"
              IN  /\ x[c] = 0 =>
                        /\ text = LeftFragment(c)
                        /\ current_fg[c] = -1
                        /\ block => current_bg[c] = -1
                  /\ x[c] > 0 =>
                        /\ cells # <<>>
                        /\ cells[Len(cells)].fg = <<img[c][<<x[c] - 1, y[c]>>] + 16>>
                        /\ current_fg[c] = LastCode(text, "fg")
                        /\ block => cells[Len(cells)].bg = <<img[c][<<x[c] - 1, y[c] + 1>>] + 16>>
                        /\ block => current_bg[c] = LastCode(text, "bg")
        /\ \A i \in 1..Len(out_lines[c]) :
              LET cells == Replay(out_lines[c][i])
                  sy == origin[c][i].y
              IN  (/\ IsContent(c, i)
                   /\ Len(cells) = LeftColumns(c) + img_width[c] + RightColumns(c)) =>
                      \A k \in 0..(img_width[c] - 1) :
                          LET cell == cells[LeftColumns(c) + k + 1]
                          IN  /\ cell.fg = <<img[c][<<k, sy>>] + 16>>
                              /\ fn[c] = "img_to_term_block" =>
                                    cell.bg = <<img[c][<<k, sy + 1>>] + 16>>

\* a glyph row of two pixels of one colour: a single foreground escape, in
\* force at both glyphs
C25_Witness ==
    \E c \in CallIds :
        /\ fn[c] = "img_to_term" /\ img_width[c] = 2
        /\ \E i \in 1..Len(out_lines[c]) :
              /\ IsContent(c, i)
              /\ Len(FgCodes(out_lines[c][i])) = 1
              /\ LET cells == Replay(out_lines[c][i])
                 IN  /\ Len(cells) = LeftColumns(c) + 2 + RightColumns(c)
                     /\ cells[LeftColumns(c) + 2].fg
                            = <<img[c][<<1, origin[c][i].y>>] + 16>>

\* what C26 says of one call of the glyph encoder with img_height >= 0
ArbitraryGeometry(c) ==
    LET most == IF screen_height[c] > img_height[c]
                THEN screen_height[c] ELSE img_height[c]
    IN  /\ Returned(c) =>
              /\ Len(out_lines[c]) = most
              /\ result[c] = JoinLines(out_lines[c])
              /\ RowsOf(c, "rows") = img_height[c]
        /\ img_height[c] > screen_height[c] =>
              /\ RowsOf(c, "top") = 0 /\ RowsOf(c, "bottom") = 0
              /\ exc[c] = ""
        /\ padding_h[c] < 0 => RowsOf(c, "top") = 0
        /\ padding_w[c] < 0 =>
              /\ exc[c] = ""
              /\ \A i \in 1..Len(out_lines[c]) :
                    IsContent(c, i) =>
                        \A k \in 1..Len(out_lines[c][i]) : out_lines[c][i][k] # " "

\* C26: for any screen_height and img_height >= 0, valid or not, the glyph
\* encoder returns exactly max(screen_height, img_height) lines; with
\* img_height > screen_height it returns img_height content rows, no padding
\* rows, and raises no error; a negative padding_h or padding_w yields no
\* padding rows or columns and no failure. (Stated for a non-empty ramp.)
C26_ArbitraryGeometryLineCount ==
    \A c \in CallIds :
        (fn[c] = "img_to_term" /\ img_height[c] >= 0 /\ ascii_palette_len[c] >= 1) =>
            ArbitraryGeometry(c)

\* The statement of C26 holds of every call whose ramp reads are inside the
\* ramp: no geometry makes the encoder fail or miscount.
ArbitraryGeometryWhenReadsInRange ==
    \A c \in CallIds :
        (fn[c] = "img_to_term" /\ img_height[c] >= 0 /\ ReadsInRange(c)) =>
            ArbitraryGeometry(c)

\* a returned call of an image taller than the viewport
TallerImageReturned ==
    \E c \in CallIds :
        /\ fn[c] = "img_to_term" /\ Returned(c)
        /\ img_height[c] > screen_height[c] /\ img_width[c] >= 1
        /\ Len(out_lines[c]) = img_height[c]

\* C27: padding never shows an image colour. In both encoders, replaying
\* any row from a reset terminal, the background in force at every padding
\* space (top and bottom rows, left and right columns) is bg_color, emitted
\* verbatim without the + 16 offset; the right padding starts with the
\* bg_color escape, after the last cell.
C27_PaddingBackground ==
    \A c \in CallIds :
        /\ bg[c] = <<ESC, "[", "4", "8", ";", "5", ";">> \o str(bg_color[c]) \o <<"m">>
        /\ \A i \in 1..Len(out_lines[c]) :
              LET row == out_lines[c][i]
                  cells == Replay(row)
              IN  /\ \A k \in 1..Len(cells) :
                        cells[k].ch = " " => cells[k].bg = <<bg_color[c]>>
                  /\ ~IsContent(c, i) =>
                        /\ Len(cells) = screen_width[c]
                        /\ \A k \in 1..Len(cells) : cells[k].ch = " "
                  /\ IsContent(c, i) =>
                        /\ \A k \in 1..Len(cells) :
                              (k <= LeftColumns(c) \/ k > Len(cells) - RightColumns(c))
                                  => cells[k].ch = " "
                        /\ EndsWith(row, RightFragment(c) \o <<ESC, "[", "0", "m">>)

\* a half-block row whose last cell has a lower colour other than bg_color
\* and whose right padding is written with bg_color all the same
C27_Witness ==
    \E c \in CallIds :
        /\ fn[c] = "img_to_term_block" /\ img_width[c] >= 1
        /\ RightColumns(c) >= 1
        /\ \E i \in 1..Len(out_lines[c]) :
              /\ IsContent(c, i)
              /\ img[c][<<img_width[c] - 1, origin[c][i].y + 1>>] + 16 # bg_color[c]
              /\ LET cells == Replay(out_lines[c][i])
                 IN  /\ cells[Len(cells)] = [ch |-> " ",
                                              fg |-> <<img[c][<<img_width[c] - 1, origin[c][i].y>>] + 16>>,
                                              bg |-> <<bg_color[c]>>]
                     /\ cells[Len(cells) - RightColumns(c)].bg
                            = <<img[c][<<img_width[c] - 1, origin[c][i].y + 1>>] + 16>>

\* the backgrounds in force at the glyph cells of the content rows of a
\* glyph-encoder call (rows whose glyphs are one character each)
GlyphBackgrounds(c) ==
    UNION {LET cells == Replay(out_lines[c][i])
           IN  IF /\ IsContent(c, i)
                  /\ Len(cells) = LeftColumns(c) + img_width[c] + RightColumns(c)
               THEN {cells[LeftColumns(c) + k].bg : k \in 1..img_width[c]}
               ELSE {}
             : i \in 1..Len(out_lines[c])}

\* C28: in the glyph encoder, replaying a content row from a reset
\* terminal, the background in force at every glyph cell is bg_color, for
\* every valid geometry, padding_w = 0 included.
C28_GlyphCellBackground ==
    \A c \in CallIds :
        ValidTerm(c) => GlyphBackgrounds(c) \subseteq {<<bg_color[c]>>}

\* What the code does: the glyph cells inherit the background of the left
\* padding; without left padding no background is in force at them.
GlyphCellBackgroundFromLeftPadding ==
    \A c \in CallIds :
        ValidTerm(c) =>
            GlyphBackgrounds(c) \subseteq
                (IF padding_w[c] > 0 THEN {<<bg_color[c]>>} ELSE {<<>>})

\* a glyph row after left padding, its glyph on bg_color
GlyphOnPaddingBackground ==
    \E c \in CallIds :
        /\ ValidTerm(c) /\ padding_w[c] > 0
        /\ GlyphBackgrounds(c) = {<<bg_color[c]>>}

\* the source rows one output line takes: 1 in the glyph encoder, 2 in the
\* half-block one
RowStep(c) == IF fn[c] = "img_to_term_block" THEN 2 ELSE 1

\* C29: row order is preserved. With padding_h rows above (none for a
\* negative padding_h), output line padding_h + k is built only from source
\* row k in the glyph encoder and from source rows 2k (foreground) and
\* 2k + 1 (background) in the half-block encoder, for every k in increasing
\* order; within a line the cells are in increasing x; no pixel is read
\* for more than one line.
C29_RowOrderPreserved ==
    \A c \in CallIds :
        LET above == RowsOf(c, "top")
            done == RowsOf(c, "rows")
            lines == IF img_height[c] > 0 THEN img_height[c] \div RowStep(c) ELSE 0
        IN  /\ pc[c] # "top" => above = (IF padding_h[c] > 0 THEN padding_h[c] ELSE 0)
            /\ pc[c] \in {"bottom", "returned"} => done = lines
            /\ \A i \in 1..Len(out_lines[c]) :
                  IsContent(c, i) =>
                      LET k == i - above - 1
                          sy == RowStep(c) * k
                          cells == Replay(out_lines[c][i])
                      IN  /\ k >= 0 /\ k < lines
                          /\ origin[c][i].y = sy
                          /\ Len(cells) = LeftColumns(c) + img_width[c] + RightColumns(c) =>
                                \A j \in 0..(img_width[c] - 1) :
                                    /\ cells[LeftColumns(c) + j + 1].fg = <<img[c][<<j, sy>>] + 16>>
                                    /\ fn[c] = "img_to_term_block" =>
                                          cells[LeftColumns(c) + j + 1].bg
                                              = <<img[c][<<j, sy + 1>>] + 16>>
            /\ pc[c] = "pixels" =>
                  /\ y[c] = RowStep(c) * done
                  /\ \A p \in DOMAIN nreads[c] :
                        nreads[c][p] =
                            (IF \/ p[2] < y[c]
                                \/ (p[2] < y[c] + RowStep(c) /\ p[1] < x[c])
                             THEN 1 ELSE 0)
            /\ \A p \in DOMAIN nreads[c] : nreads[c][p] <= 1

\* a returned half-block call of two lines that differ, the first from
\* source rows 0 and 1, the second from rows 2 and 3
C29_Witness ==
    \E c \in CallIds :
        /\ fn[c] = "img_to_term_block" /\ Returned(c)
        /\ img_height[c] = 4 /\ img_width[c] = 1
        /\ RowsOf(c, "rows") = 2
        /\ LET first == RowsOf(c, "top") + 1
           IN  /\ out_lines[c][first] # out_lines[c][first + 1]
               /\ FgCodes(out_lines[c][first]) = <<img[c][<<0, 0>>] + 16>>
               /\ FgCodes(out_lines[c][first + 1]) = <<img[c][<<0, 2>>] + 16>>

\* the spaces at the start and at the end of a text
LeadingSpaces(text) ==
    Cardinality({k \in 1..Len(text) : \A j \in 1..k : text[j] = " "})
TrailingSpaces(text) ==
    Cardinality({k \in 1..Len(text) : \A j \in k..Len(text) : text[j] = " "})

\* C30: centring is balanced, the remainder on the far side. For every
\* valid geometry and both encoders the bottom padding rows are the top
\* padding rows plus 0 or 1, and the right padding columns the left ones
\* plus 0 or 1, the extra row or column exactly when screen size minus
\* image size is odd (the half-block image counted as floor(img_height / 2)
\* rows).
C30_BalancedCentring ==
    \A c \in CallIds :
        (ValidTerm(c) \/ ValidBlock(c)) =>
            LET rows == img_height[c] \div RowStep(c)
            IN  /\ Returned(c) =>
                      /\ RowsOf(c, "rows") = rows
                      /\ RowsOf(c, "bottom") - RowsOf(c, "top")
                             = (screen_height[c] - rows) % 2
                /\ \A i \in 1..Len(out_lines[c]) :
                      IsContent(c, i) =>
                          LET visible == Strip(out_lines[c][i], FALSE)
                          IN  IF img_width[c] = 0
                              THEN visible = [k \in 1..screen_width[c] |-> " "]
                              ELSE /\ LeadingSpaces(visible) + TrailingSpaces(visible)
                                          < Len(visible)
                                   /\ TrailingSpaces(visible) - LeadingSpaces(visible)
                                          = (screen_width[c] - img_width[c]) % 2

\* a returned call with both differences odd: one row more below than
\* above, one column more on the right than on the left
C30_Witness ==
    \E c \in CallIds :
        /\ ValidBlock(c) /\ Returned(c)
        /\ img_width[c] >= 1 /\ img_height[c] >= 2
        /\ (screen_width[c] - img_width[c]) % 2 = 1
        /\ (screen_height[c] - img_height[c] \div 2) % 2 = 1
        /\ RowsOf(c, "bottom") = RowsOf(c, "top") + 1
        /\ \E i \in 1..Len(out_lines[c]) :
              /\ IsContent(c, i)
              /\ TrailingSpaces(Strip(out_lines[c][i], FALSE))
                    = LeadingSpaces(Strip(out_lines[c][i], FALSE)) + 1
====
